---------------------------- MODULE Spec2Model ----------------------------
(***************************************************************************)
(* Checksum-Integrity-Hub: the additive checksum (src/utils/hashUtils.ts,  *)
(* additiveChecksum / calculateChecksum) and the Hamming(7,4) codec        *)
(* (Hamming.encode / Hamming.decode) with the bit flip of src/App.tsx.     *)
(*                                                                         *)
(* JavaScript strings are sequences of one-character strings.  JavaScript  *)
(* values that an array read or an arithmetic step can produce are pairs   *)
(* <<kind, n>>: a number, NaN, undefined or null.                          *)
(***************************************************************************)
EXTENDS Integers, Sequences, FiniteSets

VARIABLES
    hInput,      \* the string handed to Hamming.encode or Hamming.decode
    hStage,      \* "payload", "codeword", "encoded", "decoded"
    hEncoded,    \* what Hamming.encode returned
    hReceived,   \* the codeword as received (encoded, then bits flipped)
    hFlips,      \* the 0-based indices flipped since encode, in order
    hDecoded,    \* what Hamming.decode returned
    hOutcome,    \* "none", "returned" or "threw": how the last call ended
    message,     \* the checksum's message: a sequence of UTF-16 code units
    options,     \* AdditiveOptions: [bitWidth, initialValue]
    result,      \* the string the last checksum call returned
    prevOptions, \* the options before initialValue was last changed
    prevResult,  \* the checksum computed under prevOptions
    cStage,      \* "idle", "input", "engine" (additiveChecksum was called
                 \* directly) or "exported" (calculateChecksum was called)
    cOutcome,    \* "none", "returned" or "threw": how the last call ended
    hammingInput,   \* App state: the 4-bit input field
    hammingResult,  \* App state: <<>> for null, or <<HammingResult>>
    tabLog,         \* the calls since runHamming last set the result:
                    \* [op, index, before], before = the result then
    lastOp,         \* the handler called last
    history,        \* App state: the HistoryEntry list, newest first
    now,            \* the clock that Date.now() reads
    batchItems,     \* App state: the list of BatchItem objects, by id
    items,          \* the BatchItem objects: items[id] is the object's fields
    runs,           \* the processBatch calls so far, each with what its
                    \* closure captured and the position it is awaiting at
    ops,            \* the handler calls so far on the single and batch tabs
    additiveOptions,          \* App state
    senderData,               \* App state
    senderChecksum,           \* App state
    receiverData,             \* App state
    receiverReceivedChecksum,   \* App state
    receiverCalculatedChecksum, \* App state
    senderDirty,    \* the effect that runs updateSenderChecksum is pending
    receiverDirty,  \* the effect that runs updateReceiverChecksum is pending
    intact          \* the receiver's data is as a transmit of non-empty
                    \* data with an up-to-date checksum left it

hvars == <<hInput, hStage, hEncoded, hReceived, hFlips, hDecoded, hOutcome>>

cvars == <<message, options, result, prevOptions, prevResult, cStage,
           cOutcome>>

tvars == <<hammingInput, hammingResult, tabLog, lastOp>>

evars == <<receiverCalculatedChecksum, senderDirty, receiverDirty, intact>>

bvars == <<history, now, batchItems, items, runs, ops,
           additiveOptions, senderData, senderChecksum, receiverData,
           receiverReceivedChecksum, receiverCalculatedChecksum,
           senderDirty, receiverDirty, intact>>

vars == <<hInput, hStage, hEncoded, hReceived, hFlips, hDecoded, hOutcome,
          message, options, result, prevOptions, prevResult, cStage,
          cOutcome, hammingInput, hammingResult, tabLog, lastOp,
          history, now, batchItems, items, runs, ops,
          additiveOptions, senderData, senderChecksum, receiverData,
          receiverReceivedChecksum, receiverCalculatedChecksum,
          senderDirty, receiverDirty, intact>>

---------------------------------------------------------------------------
(* Bounds of the model. *)

MaxPayloadLen == 5      \* payload strings of 0..5 characters reach encode
MaxCodewordLen == 8     \* codeword strings of 0..8 characters reach decode
MaxFlips == 2           \* bit flips between encode and decode

MaxMsgLen == 3          \* messages of 0..3 code units
MaxTabOps == 3          \* keystrokes and flipBit calls after a runHamming

MaxOps == 4             \* handler calls on the single and batch tabs

Chars == {"0", "1", "2"}

\* code units of the messages: U+0001, 'A', U+00FF and U+FFFF
CodeUnits == {1, 65, 255, 65535}

\* the widths of the select, and 24, which the type excludes
BitWidths == {8, 16, 24, 32}

StringsUpTo(n) == UNION {[1..k -> Chars] : k \in 0..n}

---------------------------------------------------------------------------
(* JavaScript values. *)

Num(n) == <<"number", n>>
NaN == <<"NaN", 0>>
Undefined == <<"undefined", 0>>
Null == <<"null", 0>>

IsNum(v) == v[1] = "number"

\* a + b on numbers; undefined + n and NaN + n are NaN
Add(a, b) == IF IsNum(a) /\ IsNum(b) THEN Num(a[2] + b[2]) ELSE NaN

\* a * k
Mul(a, k) == IF IsNum(a) THEN Num(a[2] * k) ELSE NaN

\* a % 2
Mod2(a) == IF IsNum(a) THEN Num(a[2] % 2) ELSE NaN

DigitChars == <<"0", "1", "2", "3", "4", "5", "6", "7", "8", "9">>

\* Number(ch) of a one-character string: the digit, NaN for any other
\* character of Chars
Number(ch) ==
    IF \E i \in 1..10 : DigitChars[i] = ch
    THEN Num((CHOOSE i \in 1..10 : DigitChars[i] = ch) - 1)
    ELSE NaN

RECURSIVE DecimalString(_)
DecimalString(n) ==
    IF n < 10 THEN <<DigitChars[n + 1]>>
    ELSE DecimalString(n \div 10) \o <<DigitChars[(n % 10) + 1]>>

\* String(v), as a template literal renders a value
ToString(v) ==
    IF IsNum(v) THEN DecimalString(v[2])
    ELSE IF v = NaN THEN <<"N", "a", "N">>
    ELSE IF v = Undefined THEN <<"u", "n", "d", "e", "f", "i", "n", "e", "d">>
    ELSE <<"n", "u", "l", "l">>

\* an element as Array.prototype.join renders it: undefined and null are ''
JoinElem(v) == IF v = Undefined \/ v = Null THEN <<>> ELSE ToString(v)

\* str.split('').map(Number), read at 0-based index i: undefined past the end
NumberAt(str, i) == IF i < Len(str) THEN Number(str[i + 1]) ELSE Undefined

---------------------------------------------------------------------------
(* Hamming (7,4). *)

\* encode with p2 computed from d[1] where the code reads d[2]
Hamming_encode_p2(data4) ==
    LET d(i) == NumberAt(data4, i)
        p1 == Mod2(Add(Add(d(0), d(1)), d(3)))
        p2 == Mod2(Add(Add(d(0), d(1)), d(3)))
        p3 == Mod2(Add(Add(d(1), d(2)), d(3)))
    IN  ToString(p1) \o ToString(p2) \o ToString(d(0)) \o ToString(p3)
          \o ToString(d(1)) \o ToString(d(2)) \o ToString(d(3))

\* encode with the parity bits first and the data bits after them
Hamming_encode_layout(data4) ==
    LET d(i) == NumberAt(data4, i)
        p1 == Mod2(Add(Add(d(0), d(1)), d(3)))
        p2 == Mod2(Add(Add(d(0), d(2)), d(3)))
        p3 == Mod2(Add(Add(d(1), d(2)), d(3)))
    IN  ToString(p1) \o ToString(p2) \o ToString(p3) \o ToString(d(0))
          \o ToString(d(1)) \o ToString(d(2)) \o ToString(d(3))

Hamming_encode(data4) ==
    LET d(i) == NumberAt(data4, i)
        p1 == Mod2(Add(Add(d(0), d(1)), d(3)))
        p2 == Mod2(Add(Add(d(0), d(2)), d(3)))
        p3 == Mod2(Add(Add(d(1), d(2)), d(3)))
    IN  ToString(p1) \o ToString(p2) \o ToString(d(0)) \o ToString(p3)
          \o ToString(d(1)) \o ToString(d(2)) \o ToString(d(3))

\* corrected[errorPos - 1] = corrected[errorPos - 1] === 0 ? 1 : 0, on the
\* array b read at indices 0..6.  A NaN errorPos writes the property "NaN",
\* which no index reads.
CorrectedAt(b, errorPos, i) ==
    IF IsNum(errorPos) /\ errorPos[2] # 0 /\ i = errorPos[2] - 1
    THEN (IF b[i] = Num(0) THEN Num(1) ELSE Num(0))
    ELSE b[i]

\* decode with the weights of s2 and s3 exchanged
Hamming_decode_weights(bits7) ==
    LET b == [i \in 0..6 |-> NumberAt(bits7, i)]
        s1 == Mod2(Add(Add(Add(b[0], b[2]), b[4]), b[6]))
        s2 == Mod2(Add(Add(Add(b[1], b[2]), b[5]), b[6]))
        s3 == Mod2(Add(Add(Add(b[3], b[4]), b[5]), b[6]))
        errorPos == Add(Add(s1, Mul(s2, 4)), Mul(s3, 2))
        corrected == [i \in 0..6 |-> CorrectedAt(b, errorPos, i)]
    IN  [corrected |-> JoinElem(corrected[2]) \o JoinElem(corrected[4])
                         \o JoinElem(corrected[5]) \o JoinElem(corrected[6]),
         errorPos  |-> IF errorPos = Num(0) THEN Null ELSE errorPos]

\* decode that reads the data bits of the received array, not of the
\* corrected copy
Hamming_decode_uncorrected(bits7) ==
    LET b == [i \in 0..6 |-> NumberAt(bits7, i)]
        s1 == Mod2(Add(Add(Add(b[0], b[2]), b[4]), b[6]))
        s2 == Mod2(Add(Add(Add(b[1], b[2]), b[5]), b[6]))
        s3 == Mod2(Add(Add(Add(b[3], b[4]), b[5]), b[6]))
        errorPos == Add(Add(s1, Mul(s2, 2)), Mul(s3, 4))
    IN  [corrected |-> JoinElem(b[2]) \o JoinElem(b[4])
                         \o JoinElem(b[5]) \o JoinElem(b[6]),
         errorPos  |-> IF errorPos = Num(0) THEN Null ELSE errorPos]

Hamming_decode(bits7) ==
    LET b == [i \in 0..6 |-> NumberAt(bits7, i)]
        s1 == Mod2(Add(Add(Add(b[0], b[2]), b[4]), b[6]))
        s2 == Mod2(Add(Add(Add(b[1], b[2]), b[5]), b[6]))
        s3 == Mod2(Add(Add(Add(b[3], b[4]), b[5]), b[6]))
        errorPos == Add(Add(s1, Mul(s2, 2)), Mul(s3, 4))
        corrected == [i \in 0..6 |-> CorrectedAt(b, errorPos, i)]
    IN  [corrected |-> JoinElem(corrected[2]) \o JoinElem(corrected[4])
                         \o JoinElem(corrected[5]) \o JoinElem(corrected[6]),
         errorPos  |-> IF errorPos = Num(0) THEN Null ELSE errorPos]

\* a flip that reads index as a 1-indexed position
FlipBitAt_shifted(received, index) ==
    [i \in 1..Len(received) |->
        IF i = index
        THEN (IF received[i] = "0" THEN "1" ELSE "0")
        ELSE received[i]]

\* a flip that sets the bit instead of toggling it
FlipBitAt_set(received, index) ==
    [i \in 1..Len(received) |-> IF i = index + 1 THEN "1" ELSE received[i]]

\* flipBit: bits[index] = bits[index] === '0' ? '1' : '0', joined again
FlipBitAt(received, index) ==
    [i \in 1..Len(received) |->
        IF i = index + 1
        THEN (IF received[i] = "0" THEN "1" ELSE "0")
        ELSE received[i]]

---------------------------------------------------------------------------
(* JavaScript numbers in the checksum.  A non-negative integer below 2^64  *)
(* is four 16-bit limbs <<l0, l1, l2, l3>>, least significant first.  A    *)
(* number is an IEEE-754 double: a sum that needs more than 53 significant *)
(* bits is rounded to the nearest double, ties to the even significand.    *)

LimbBase == 2^16

Big(l0, l1, l2, l3) == <<l0, l1, l2, l3>>

\* x + c exactly, for 0 <= c <= LimbBase
AddSmall(x, c) ==
    LET t1 == x[1] + c
        t2 == x[2] + (t1 \div LimbBase)
        t3 == x[3] + (t2 \div LimbBase)
        t4 == x[4] + (t3 \div LimbBase)
    IN  <<t1 % LimbBase, t2 % LimbBase, t3 % LimbBase, t4 % LimbBase>>

RECURSIVE BitLen16(_)
BitLen16(n) == IF n = 0 THEN 0 ELSE 1 + BitLen16(n \div 2)

\* the number of significant bits of x
BitLen(x) ==
    IF x[4] # 0 THEN 48 + BitLen16(x[4])
    ELSE IF x[3] # 0 THEN 32 + BitLen16(x[3])
    ELSE IF x[2] # 0 THEN 16 + BitLen16(x[2])
    ELSE BitLen16(x[1])

\* the double nearest to the integer x (round to nearest, ties to even)
RoundToDouble(x) ==
    IF BitLen(x) <= 53 THEN x
    ELSE LET ulp  == 2^(BitLen(x) - 53)
             r    == x[1] % ulp
             down == [x EXCEPT ![1] = x[1] - r]
             odd  == (x[1] \div ulp) % 2 = 1
         IN  IF 2 * r < ulp \/ (2 * r = ulp /\ ~odd)
             THEN down
             ELSE AddSmall(down, ulp)

\* sum += message.charCodeAt(i), for i = from .. message.length - 1.  The
\* running sum is always four limbs; testing that makes TLC evaluate it at
\* each iteration, where it would otherwise nest the additions of a long
\* message into one deep expression.
RECURSIVE SumCharCodes(_, _, _)
SumCharCodes(sum, msg, from) ==
    IF from > Len(msg) \/ sum \notin Seq(Nat) THEN sum
    ELSE SumCharCodes(RoundToDouble(AddSmall(sum, msg[from])), msg, from + 1)

\* sum & mask for mask = 2^maskBits - 1.  Both operands go through ToInt32:
\* a mask below 2^31 keeps the low bits, a non-negative value; 0xFFFFFFFF is
\* the int32 -1, and the result is ToInt32(sum), negative when bit 31 of
\* sum is set.  The result is [neg, lo, hi] with magnitude hi * 2^16 + lo.
BitAndMask(sum, maskBits) ==
    IF maskBits = 8 THEN [neg |-> FALSE, lo |-> sum[1] % 256, hi |-> 0]
    ELSE IF maskBits = 16 THEN [neg |-> FALSE, lo |-> sum[1], hi |-> 0]
    ELSE IF sum[2] < 2^15 THEN [neg |-> FALSE, lo |-> sum[1], hi |-> sum[2]]
    ELSE IF sum[1] = 0
         THEN [neg |-> TRUE, lo |-> 0, hi |-> LimbBase - sum[2]]
         ELSE [neg |-> TRUE, lo |-> LimbBase - sum[1],
               hi |-> LimbBase - 1 - sum[2]]

HexDigitsLower ==
    <<"0", "1", "2", "3", "4", "5", "6", "7", "8", "9",
      "a", "b", "c", "d", "e", "f">>

HexDigitsUpper ==
    <<"0", "1", "2", "3", "4", "5", "6", "7", "8", "9",
      "A", "B", "C", "D", "E", "F">>

RECURSIVE HexOf(_)
HexOf(n) ==
    IF n < 16 THEN <<HexDigitsLower[n + 1]>>
    ELSE HexOf(n \div 16) \o <<HexDigitsLower[(n % 16) + 1]>>

\* str.padStart(pad, '0')
RECURSIVE PadStart(_, _)
PadStart(str, pad) ==
    IF Len(str) >= pad THEN str ELSE PadStart(<<"0">> \o str, pad)

\* n.toString(16) of an int32: a '-' and the magnitude when negative,
\* lowercase digits, no leading zeros
ToString16(n) ==
    (IF n.neg THEN <<"-">> ELSE <<>>)
      \o (IF n.hi = 0 THEN HexOf(n.lo)
          ELSE HexOf(n.hi) \o PadStart(HexOf(n.lo), 4))

UpperChar(ch) ==
    IF \E i \in 1..16 : HexDigitsLower[i] = ch
    THEN HexDigitsUpper[CHOOSE i \in 1..16 : HexDigitsLower[i] = ch]
    ELSE ch

\* str.toUpperCase()
ToUpperCase(str) == [i \in 1..Len(str) |-> UpperChar(str[i])]

additiveChecksum(msg, opts) ==
    LET sum      == SumCharCodes(opts.initialValue, msg, 1)
        maskBits == IF opts.bitWidth = 8 THEN 8
                    ELSE IF opts.bitWidth = 32 THEN 32
                    ELSE 16
        pad      == IF opts.bitWidth = 8 THEN 2
                    ELSE IF opts.bitWidth = 32 THEN 8
                    ELSE 4
    IN  PadStart(ToUpperCase(ToString16(BitAndMask(sum, maskBits))), pad)

\* if (!data) return ''; every caller passes its additiveOptions
calculateChecksum(data, opts) ==
    IF data = <<>> THEN <<>> ELSE additiveChecksum(data, opts)

\* initial values: 0, 1, 7, 0x10007, 2^31 - 1, 2^31, 2^32 - 1, 2^32,
\* 2^32 + 2^31 + 5, 2^53 - 1 and 2^53, each a double
InitialValues ==
    { Big(0, 0, 0, 0), Big(1, 0, 0, 0), Big(7, 0, 0, 0), Big(7, 1, 0, 0),
      Big(65535, 32767, 0, 0), Big(0, 32768, 0, 0),
      Big(65535, 65535, 0, 0), Big(0, 0, 1, 0), Big(5, 32768, 1, 0),
      Big(65535, 65535, 65535, 31), Big(0, 0, 0, 32) }

---------------------------------------------------------------------------
(* The codec driven on its own: a payload is encoded, bits of the codeword *)
(* are flipped and the result decoded; or a string is decoded directly.    *)

NoString == <<"-none-">>
NoDecode == [corrected |-> NoString, errorPos |-> Null]
Zero == Big(0, 0, 0, 0)
DefaultOptions == [bitWidth |-> 16, initialValue |-> Zero]

\* a string of exactly n characters, each '0' or '1'
IsBits(str, n) == Len(str) = n /\ \A i \in 1..Len(str) : str[i] \in {"0", "1"}

\* useState("Hello Integrity World!")
HelloIntegrityWorld ==
    <<72, 101, 108, 108, 111, 32, 73, 110, 116, 101, 103, 114, 105, 116,
      121, 32, 87, 111, 114, 108, 100, 33>>

\* the single and batch tabs after the App has mounted with nothing saved:
\* the effect has computed the sender's checksum
BatchIdle ==
    /\ history = <<>>
    /\ now = 1
    /\ batchItems = <<>>
    /\ items = <<>>
    /\ runs = <<>>
    /\ ops = 0
    /\ additiveOptions = DefaultOptions
    /\ senderData = HelloIntegrityWorld
    /\ senderChecksum = calculateChecksum(senderData, additiveOptions)
    /\ receiverData = HelloIntegrityWorld
    /\ receiverReceivedChecksum = <<>>
    /\ receiverCalculatedChecksum
         = calculateChecksum(receiverData, additiveOptions)
    /\ senderDirty = FALSE
    /\ receiverDirty = FALSE
    /\ intact = FALSE

ChecksumIdle ==
    /\ message = <<>>
    /\ options = DefaultOptions
    /\ result = NoString
    /\ prevOptions = DefaultOptions
    /\ prevResult = NoString
    /\ cStage = "idle"
    /\ cOutcome = "none"

HammingIdle ==
    /\ hInput = <<>>
    /\ hStage = "idle"
    /\ hEncoded = NoString
    /\ hReceived = NoString
    /\ hFlips = <<>>
    /\ hDecoded = NoDecode
    /\ hOutcome = "none"

\* the Hamming tab as the App constructs it
HammingTabInit ==
    /\ hammingInput = <<"1", "0", "1", "1">>
    /\ hammingResult = <<>>
    /\ tabLog = <<>>
    /\ lastOp = "none"

InitHamming ==
    /\ \/ hStage = "payload" /\ hInput \in StringsUpTo(MaxPayloadLen)
       \/ hStage = "codeword" /\ hInput \in StringsUpTo(MaxCodewordLen)
    /\ hEncoded = NoString
    /\ hReceived = NoString
    /\ hFlips = <<>>
    /\ hDecoded = NoDecode
    /\ hOutcome = "none"
    /\ ChecksumIdle
    /\ HammingTabInit
    /\ BatchIdle

\* Hamming.encode(hInput); the function has no throw and no failing call
Encode ==
    /\ hStage = "payload"
    /\ hEncoded' = Hamming_encode(hInput)
    /\ hReceived' = Hamming_encode(hInput)
    /\ hOutcome' = "returned"
    /\ hStage' = "encoded"
    /\ UNCHANGED <<hInput, hFlips, hDecoded>>
    /\ UNCHANGED <<cvars, tvars, bvars>>

\* one click on bit button i of the received codeword.  The buttons exist
\* for a codeword runHamming made: from a 4-character input (its guard) of
\* '0' and '1' (the input field's filter), one button per character.
Flip(i) ==
    /\ hStage = "encoded"
    /\ IsBits(hInput, 4)
    /\ Len(hFlips) < MaxFlips
    /\ i < Len(hReceived)
    /\ hReceived' = FlipBitAt(hReceived, i)
    /\ hFlips' = Append(hFlips, i)
    /\ UNCHANGED <<hInput, hStage, hEncoded, hDecoded, hOutcome>>
    /\ UNCHANGED <<cvars, tvars, bvars>>

\* Hamming.decode of the received codeword
DecodeReceived ==
    /\ hStage = "encoded"
    /\ hDecoded' = Hamming_decode(hReceived)
    /\ hOutcome' = "returned"
    /\ hStage' = "decoded"
    /\ UNCHANGED <<hInput, hEncoded, hReceived, hFlips>>
    /\ UNCHANGED <<cvars, tvars, bvars>>

\* Hamming.decode(hInput) on a string that did not come from encode
DecodeInput ==
    /\ hStage = "codeword"
    /\ hReceived' = hInput
    /\ hDecoded' = Hamming_decode(hInput)
    /\ hOutcome' = "returned"
    /\ hStage' = "decoded"
    /\ UNCHANGED <<hInput, hEncoded, hFlips>>
    /\ UNCHANGED <<cvars, tvars, bvars>>

NextHamming ==
    \/ Encode
    \/ \E i \in 0..(Len(hReceived) - 1) : Flip(i)
    \/ DecodeReceived
    \/ DecodeInput

SpecHamming == InitHamming /\ [][NextHamming]_vars

---------------------------------------------------------------------------
(* Properties of the codec, checked under SpecHamming. *)

Xor(a, b) == IF a = b THEN 0 ELSE 1

\* the bit at 1-indexed position i of a string of '0' and '1'
BitOf(str, i) == IF str[i] = "1" THEN 1 ELSE 0

BitChar(n) == IF n = 1 THEN "1" ELSE "0"

\* encode was called on hInput (the run started from a payload)
Encoded == hStage \in {"encoded", "decoded"} /\ hEncoded # NoString

\* decode was called on a string handed to it directly
DecodedDirectly == hStage = "decoded" /\ hEncoded = NoString

\* C1: single-bit correction.  For each of the 16 payloads d and each
\* position k in 1..7, decoding encode(d) with exactly bit k flipped returns
\* corrected = d and errorPos = k.
C1_SingleBitCorrection ==
    (hStage = "decoded" /\ Encoded /\ IsBits(hInput, 4) /\ Len(hFlips) = 1)
        => /\ hDecoded.corrected = hInput
           /\ hDecoded.errorPos = Num(hFlips[1] + 1)

\* payload 1011, bit 6 (a data bit) flipped, decoded
C1_Witness ==
    /\ hStage = "decoded"
    /\ hInput = <<"1", "0", "1", "1">>
    /\ hFlips = <<5>>
    /\ hReceived = <<"0", "1", "1", "0", "0", "0", "1">>
    /\ hDecoded.errorPos = Num(6)

\* C2: round trip.  For each of the 16 payloads d, decode(encode(d))
\* returns corrected = d and no error position (null).
C2_RoundTrip ==
    (hStage = "decoded" /\ Encoded /\ IsBits(hInput, 4) /\ hFlips = <<>>)
        => /\ hDecoded.corrected = hInput
           /\ hDecoded.errorPos = Null

\* payload 0111 encoded and decoded with no bit flipped
C2_Witness ==
    /\ hStage = "decoded"
    /\ hInput = <<"0", "1", "1", "1">>
    /\ hFlips = <<>>
    /\ hReceived = hEncoded
    /\ hDecoded.corrected = <<"0", "1", "1", "1">>

\* C3: encode of a valid payload d0 d1 d2 d3 is exactly the codeword
\* [p1, p2, d0, p3, d1, d2, d3] with p1 = d0 xor d1 xor d3,
\* p2 = d0 xor d2 xor d3, p3 = d1 xor d2 xor d3.
C3_EncodeLayout ==
    (Encoded /\ IsBits(hInput, 4))
        => LET d0 == BitOf(hInput, 1)
               d1 == BitOf(hInput, 2)
               d2 == BitOf(hInput, 3)
               d3 == BitOf(hInput, 4)
               p1 == Xor(Xor(d0, d1), d3)
               p2 == Xor(Xor(d0, d2), d3)
               p3 == Xor(Xor(d1, d2), d3)
           IN  hEncoded = <<BitChar(p1), BitChar(p2), BitChar(d0),
                            BitChar(p3), BitChar(d1), BitChar(d2),
                            BitChar(d3)>>

\* payload 1101 encoded to 1010101
C3_Witness ==
    /\ hStage = "encoded"
    /\ hInput = <<"1", "1", "0", "1">>
    /\ hEncoded = <<"1", "0", "1", "0", "1", "0", "1">>
    /\ hFlips = <<>>

\* the syndrome position of a 7-bit string, from the parity checks
SyndromePos(str) ==
    LET s1 == Xor(Xor(Xor(BitOf(str, 1), BitOf(str, 3)), BitOf(str, 5)),
                  BitOf(str, 7))
        s2 == Xor(Xor(Xor(BitOf(str, 2), BitOf(str, 3)), BitOf(str, 6)),
                  BitOf(str, 7))
        s3 == Xor(Xor(Xor(BitOf(str, 4), BitOf(str, 5)), BitOf(str, 6)),
                  BitOf(str, 7))
    IN  s1 + 2 * s2 + 4 * s3

\* str with only the bit at 1-indexed position pos toggled (pos = 0: none)
WithBitToggled(str, pos) ==
    [i \in 1..Len(str) |->
        IF i = pos THEN BitChar(1 - BitOf(str, i)) ELSE str[i]]

\* C4: decode of any of the 128 7-bit strings reports no error position
\* exactly when the syndrome position s1 + 2*s2 + 4*s3 is 0 and that position
\* (in 1..7) otherwise, and returns bits 3, 5, 6, 7 of the codeword with
\* only the bit at that position flipped.
C4_SyndromeDecode ==
    (hStage = "decoded" /\ IsBits(hReceived, 7))
        => LET pos   == SyndromePos(hReceived)
               fixed == WithBitToggled(hReceived, pos)
           IN  /\ pos \in 0..7
               /\ (hDecoded.errorPos = Null) <=> (pos = 0)
               /\ pos # 0 => hDecoded.errorPos = Num(pos)
               /\ hDecoded.corrected =
                      <<fixed[3], fixed[5], fixed[6], fixed[7]>>

\* 1111101 decoded directly: the syndrome names position 6, a data bit
C4_Witness ==
    /\ DecodedDirectly
    /\ hInput = <<"1", "1", "1", "1", "1", "0", "1">>
    /\ hDecoded.errorPos = Num(6)
    /\ hDecoded.corrected = <<"1", "1", "1", "1">>

\* C9: encode fails with an invalid-input error, returning no codeword,
\* whenever the payload is not exactly 4 characters of '0' and '1'.
C9_EncodeRejectsInvalid ==
    (Encoded /\ ~IsBits(hInput, 4)) => hOutcome = "threw"

\* C10: decode fails with an invalid-input error, returning no payload and
\* no error position, whenever the codeword is not exactly 7 characters of
\* '0' and '1'.
C10_DecodeRejectsInvalid ==
    (DecodedDirectly /\ ~IsBits(hInput, 7)) => hOutcome = "threw"

\* C14: encode("1011") is "0110011", the vector the parity equations give
\* (p1 = 0, p2 = 1, p3 = 0), and not "0101011".
C14_ExampleVector ==
    (Encoded /\ hInput = <<"1", "0", "1", "1">>)
        => /\ hEncoded = <<"0", "1", "1", "0", "0", "1", "1">>
           /\ hEncoded # <<"0", "1", "0", "1", "0", "1", "1">>

\* 1011 encoded, no bit flipped yet
C14_Witness ==
    /\ hStage = "encoded"
    /\ hInput = <<"1", "0", "1", "1">>
    /\ hEncoded = <<"0", "1", "1", "0", "0", "1", "1">>
    /\ hReceived = hEncoded

\* C15: double-bit errors are not silently fixed.  For every payload d and
\* every two distinct positions, decoding encode(d) with both bits flipped
\* reports an error position, corrects only that position, and returns a
\* payload that differs from d.
C15_DoubleBitError ==
    ( /\ hStage = "decoded" /\ Encoded /\ IsBits(hInput, 4)
      /\ Len(hFlips) = 2 /\ hFlips[1] # hFlips[2] )
        => LET fixed == WithBitToggled(hReceived, SyndromePos(hReceived))
           IN  /\ hDecoded.errorPos # Null
               /\ hDecoded.errorPos = Num(SyndromePos(hReceived))
               /\ hDecoded.corrected =
                      <<fixed[3], fixed[5], fixed[6], fixed[7]>>
               /\ hDecoded.corrected # hInput

\* 0000 with bits 1 and 2 flipped: the syndrome names bit 3, and the
\* payload comes back as 1000
C15_Witness ==
    /\ hStage = "decoded"
    /\ hInput = <<"0", "0", "0", "0">>
    /\ hFlips = <<0, 1>>
    /\ hDecoded.errorPos = Num(3)
    /\ hDecoded.corrected = <<"1", "0", "0", "0">>

---------------------------------------------------------------------------
(* The checksum driven on its own: a message and options are chosen, the   *)
(* checksum is computed, and the initial value may then be changed once,   *)
(* which recomputes the checksum as the sender effect does.                *)

Messages == UNION {[1..k -> CodeUnits] : k \in 0..MaxMsgLen}

OptionsSet == [bitWidth : BitWidths, initialValue : InitialValues]

InitChecksum ==
    /\ message \in Messages
    /\ options \in OptionsSet
    /\ result = NoString
    /\ prevOptions = options
    /\ prevResult = NoString
    /\ cStage = "input"
    /\ cOutcome = "none"
    /\ HammingIdle
    /\ HammingTabInit
    /\ BatchIdle

\* additiveChecksum(message, options); neither function has a throw
CallAdditive ==
    /\ cStage = "input"
    /\ result' = additiveChecksum(message, options)
    /\ cStage' = "engine"
    /\ cOutcome' = "returned"
    /\ UNCHANGED <<message, options, prevOptions, prevResult>>
    /\ UNCHANGED <<hvars, tvars, bvars>>

\* calculateChecksum(message, HashAlgorithm.ADDITIVE, options)
CallCalculate ==
    /\ cStage = "input"
    /\ result' = calculateChecksum(message, options)
    /\ cStage' = "exported"
    /\ cOutcome' = "returned"
    /\ UNCHANGED <<message, options, prevOptions, prevResult>>
    /\ UNCHANGED <<hvars, tvars, bvars>>

\* saveAdditiveOptions({...additiveOptions, initialValue: v}), after which
\* the checksum is computed again with the new options
ChangeInitialValue(v) ==
    /\ cStage \in {"engine", "exported"}
    /\ prevResult = NoString
    /\ v # options.initialValue
    /\ prevOptions' = options
    /\ prevResult' = result
    /\ options' = [options EXCEPT !.initialValue = v]
    /\ result' = IF cStage = "engine"
                 THEN additiveChecksum(message, options')
                 ELSE calculateChecksum(message, options')
    /\ cOutcome' = "returned"
    /\ UNCHANGED <<message, cStage>>
    /\ UNCHANGED <<hvars, tvars, bvars>>

NextChecksum ==
    \/ CallAdditive
    \/ CallCalculate
    \/ \E v \in InitialValues : ChangeInitialValue(v)

SpecChecksum == InitChecksum /\ [][NextChecksum]_vars

---------------------------------------------------------------------------
(* Properties of the checksum, checked under SpecChecksum. *)

SupportedWidths == {8, 16, 32}

\* every character is one of 0-9, A-F
IsUpperHex(str) ==
    \A i \in 1..Len(str) : \E k \in 1..16 : HexDigitsUpper[k] = str[i]

HexDigitValue(ch) == (CHOOSE k \in 1..16 : HexDigitsUpper[k] = ch) - 1

\* the number a string of at most 4 hexadecimal digits denotes
RECURSIVE HexNum(_)
HexNum(str) ==
    IF str = <<>> THEN 0
    ELSE 16 * HexNum(SubSeq(str, 1, Len(str) - 1))
           + HexDigitValue(str[Len(str)])

\* the number a string of at most 8 hexadecimal digits denotes, as
\* <<low 16 bits, high 16 bits>>
HexValue(str) ==
    IF Len(str) <= 4 THEN <<HexNum(str), 0>>
    ELSE <<HexNum(SubSeq(str, Len(str) - 3, Len(str))),
           HexNum(SubSeq(str, 1, Len(str) - 4))>>

\* initialValue plus the code units of the message, as an integer
RECURSIVE ExactSum(_, _)
ExactSum(init, msg) ==
    IF msg = <<>> THEN init
    ELSE AddSmall(ExactSum(init, SubSeq(msg, 1, Len(msg) - 1)),
                  msg[Len(msg)])

\* x mod 2^width, as <<low 16 bits, high 16 bits>>, for x of two or more limbs
ModWidth(x, width) ==
    IF width = 8 THEN <<x[1] % 256, 0>>
    ELSE IF width = 16 THEN <<x[1], 0>>
    ELSE <<x[1], x[2]>>

\* the sum of two numbers of at most 32 bits, as three limbs
AddPairs(x, y) ==
    LET t1 == x[1] + y[1]
        t2 == x[2] + y[2] + (t1 \div LimbBase)
    IN  <<t1 % LimbBase, t2 % LimbBase, t2 \div LimbBase>>

EngineCalled == cStage = "engine" /\ options.bitWidth \in SupportedWidths

\* C5: for every message and every config with bitWidth in {8,16,32}, the
\* checksum denotes (initialValue + sum of the code units) mod 2^bitWidth.
C5_ChecksumValue ==
    EngineCalled
        => /\ IsUpperHex(result)
           /\ Len(result) <= 8
           /\ HexValue(result) =
                  ModWidth(ExactSum(options.initialValue, message),
                           options.bitWidth)

\* C6: for every message and every config with bitWidth in {8,16,32}, the
\* checksum is exactly bitWidth/4 characters, each one of 0-9, A-F.
C6_ChecksumFormat ==
    EngineCalled
        => /\ Len(result) = options.bitWidth \div 4
           /\ IsUpperHex(result)

InitialValueChanged == EngineCalled /\ prevResult # NoString

\* C7: changing only initialValue from a to b shifts the checksum value by
\* (b - a) mod 2^bitWidth, that is new + a = old + b modulo 2^bitWidth
\* wherever both checksums denote numbers; and the checksum with initialValue
\* v is the checksum with initialValue v mod 2^bitWidth.
C7_InitialValueShift ==
    InitialValueChanged
        => LET a == prevOptions.initialValue
               b == options.initialValue
               w == options.bitWidth
           IN  /\ ( /\ IsUpperHex(result) /\ Len(result) <= 8
                    /\ IsUpperHex(prevResult) /\ Len(prevResult) <= 8 )
                    => ModWidth(AddPairs(HexValue(result), ModWidth(a, 32)), w)
                         = ModWidth(AddPairs(HexValue(prevResult),
                                             ModWidth(b, 32)), w)
               /\ ModWidth(a, w) = ModWidth(b, w) => result = prevResult

\* C8: the checksum of the empty message is the initial value masked and
\* formatted, never the empty string: with initialValue 0 it is "00",
\* "0000" or "00000000".
C8_EmptyMessage ==
    (cStage = "exported" /\ message = <<>>)
        => /\ result # <<>>
           /\ (options.initialValue = Zero
                 /\ options.bitWidth \in SupportedWidths)
                => result = [i \in 1..(options.bitWidth \div 4) |-> "0"]

ChecksumCalled == cStage \in {"engine", "exported"}

\* C11: computing a checksum with a bitWidth outside {8,16,32} fails with
\* an UnsupportedConfig error; no string is returned.
C11_UnsupportedWidthRejected ==
    (ChecksumCalled /\ options.bitWidth \notin SupportedWidths)
        => cOutcome = "threw"

\* the rearrangements of a sequence
Rearrangements(seq) ==
    { [i \in 1..Len(seq) |-> seq[f[i]]] :
        f \in { g \in [1..Len(seq) -> 1..Len(seq)] :
                  \A i, j \in 1..Len(seq) : g[i] = g[j] => i = j } }

---------------------------------------------------------------------------
(* The Hamming tab of the App: the input field, runHamming and flipBit.    *)

\* the input's maxLength
MaxLength == 4

\* value.replace(/[^01]/g, '')
FilterBits(typed) == SelectSeq(typed, LAMBDA ch : ch \in {"0", "1"})

InitHammingTab ==
    /\ HammingTabInit
    /\ BatchIdle
    /\ HammingIdle
    /\ ChecksumIdle

\* what one keystroke makes of the field's value: a character typed at the
\* end while the value is shorter than maxLength, or the last one deleted
Keystrokes(value) ==
    {Append(value, ch) : ch \in IF Len(value) < MaxLength THEN Chars ELSE {}}
      \cup {SubSeq(value, 1, Len(value) - 1)}

\* onChange of the input field: setHammingInput of the filtered value
SetHammingInput(typed) ==
    /\ hammingInput' = FilterBits(typed)
    /\ lastOp' = "setHammingInput"
    /\ IF hammingResult = <<>>
       THEN UNCHANGED tabLog
       ELSE /\ Len(tabLog) < MaxTabOps
            /\ tabLog' = Append(tabLog,
                                [op     |-> "setHammingInput",
                                 index  |-> 0,
                                 before |-> hammingResult[1]])
    /\ UNCHANGED hammingResult
    /\ UNCHANGED <<hvars, cvars, bvars>>

\* runHamming without the length guard
runHamming_unguarded ==
    /\ lastOp' = "runHamming"
    /\ hammingResult' =
           << [original      |-> hammingInput,
               encoded       |-> Hamming_encode(hammingInput),
               received      |-> Hamming_encode(hammingInput),
               corrected     |-> hammingInput,
               errorPosition |-> Null] >>
    /\ tabLog' = <<>>
    /\ UNCHANGED hammingInput
    /\ UNCHANGED <<hvars, cvars, bvars>>

runHamming ==
    /\ lastOp' = "runHamming"
    /\ IF Len(hammingInput) # 4
       THEN UNCHANGED <<hammingInput, hammingResult, tabLog>>
       ELSE /\ hammingResult' =
                  << [original      |-> hammingInput,
                      encoded       |-> Hamming_encode(hammingInput),
                      received      |-> Hamming_encode(hammingInput),
                      corrected     |-> hammingInput,
                      errorPosition |-> Null] >>
            /\ tabLog' = <<>>
            /\ UNCHANGED hammingInput
    /\ UNCHANGED <<hvars, cvars, bvars>>

\* flipBit that decodes the codeword as it was before the flip
flipBit_stale(index) ==
    /\ lastOp' = "flipBit"
    /\ IF hammingResult = <<>>
       THEN UNCHANGED <<hammingInput, hammingResult, tabLog>>
       ELSE LET newReceived == FlipBitAt(hammingResult[1].received, index)
                decoded     == Hamming_decode(hammingResult[1].received)
            IN  /\ Len(tabLog) < MaxTabOps
                /\ hammingResult' =
                       << [hammingResult[1] EXCEPT
                             !.received      = newReceived,
                             !.corrected     = decoded.corrected,
                             !.errorPosition = decoded.errorPos] >>
                /\ tabLog' = Append(tabLog,
                                    [op     |-> "flipBit",
                                     index  |-> index,
                                     before |-> hammingResult[1]])
                /\ UNCHANGED hammingInput
    /\ UNCHANGED <<hvars, cvars, bvars>>

flipBit(index) ==
    /\ lastOp' = "flipBit"
    /\ IF hammingResult = <<>>
       THEN UNCHANGED <<hammingInput, hammingResult, tabLog>>
       ELSE LET newReceived == FlipBitAt(hammingResult[1].received, index)
                decoded     == Hamming_decode(newReceived)
            IN  /\ Len(tabLog) < MaxTabOps
                /\ hammingResult' =
                       << [hammingResult[1] EXCEPT
                             !.received      = newReceived,
                             !.corrected     = decoded.corrected,
                             !.errorPosition = decoded.errorPos] >>
                /\ tabLog' = Append(tabLog,
                                    [op     |-> "flipBit",
                                     index  |-> index,
                                     before |-> hammingResult[1]])
                /\ UNCHANGED hammingInput
    /\ UNCHANGED <<hvars, cvars, bvars>>

\* the indices flipBit is called with: one bit button per character of the
\* received codeword
FlipIndices ==
    IF hammingResult = <<>> THEN {0}
    ELSE 0..(Len(hammingResult[1].received) - 1)

NextHammingTab ==
    \/ \E typed \in Keystrokes(hammingInput) : SetHammingInput(typed)
    \/ runHamming
    \/ \E index \in FlipIndices : flipBit(index)

SpecHammingTab == InitHammingTab /\ [][NextHammingTab]_vars

---------------------------------------------------------------------------
(* Claims about the Hamming tab.                                           *)

\* the last call logged since the result was set
LastLogged == tabLog[Len(tabLog)]

\* the step is a flipBit call that found a result
FlipStep == lastOp' = "flipBit" /\ hammingResult # <<>>

\* C12: flipBit with an index i in 0..6 on a 7-bit received codeword makes a
\* 7-bit codeword in which exactly bit i is toggled and the other six bits
\* are as they were.
C12_FlipTogglesOneBit ==
    [][(FlipStep /\ IsBits(hammingResult[1].received, 7))
         => LET before == hammingResult[1].received
                after  == hammingResult'[1].received
                index  == tabLog'[Len(tabLog')].index
            IN  /\ index \in 0..6
                /\ IsBits(after, 7)
                /\ \A k \in 1..7 : (after[k] # before[k]) <=> (k = index + 1)
       ]_vars

\* flipBit(6) has just toggled the last bit of the received codeword
C12_Witness ==
    /\ lastOp = "flipBit"
    /\ hammingResult # <<>>
    /\ tabLog # <<>>
    /\ LastLogged.op = "flipBit"
    /\ LastLogged.index = 6
    /\ hammingResult[1].received[7] # LastLogged.before.received[7]
    /\ SubSeq(hammingResult[1].received, 1, 6)
         = SubSeq(LastLogged.before.received, 1, 6)

\* the result as it was after the n-th logged call
ResultAfter(n) ==
    IF n = Len(tabLog) THEN hammingResult[1] ELSE tabLog[n + 1].before

\* the (n-1)-th and n-th logged calls are flipBit calls with one index
SameFlipTwice(n) ==
    /\ tabLog[n - 1].op = "flipBit"
    /\ tabLog[n].op = "flipBit"
    /\ tabLog[n - 1].index = tabLog[n].index

\* C13: flipBit is its own inverse: two consecutive flipBit(i) calls leave
\* received, corrected and errorPosition as they were before the first.
C13_FlipTwiceRestores ==
    \A n \in 2..Len(tabLog) :
        SameFlipTwice(n)
          => /\ ResultAfter(n) = tabLog[n - 1].before
             /\ FlipBitAt(FlipBitAt(tabLog[n - 1].before.received,
                                    tabLog[n].index), tabLog[n].index)
                  = tabLog[n - 1].before.received

\* a bit of a codeword that already had an error was flipped twice
C13_Witness ==
    /\ Len(tabLog) = 3
    /\ SameFlipTwice(3)
    /\ tabLog[1].op = "flipBit"
    /\ tabLog[1].index # tabLog[3].index
    /\ hammingResult[1].errorPosition # Null
    /\ tabLog[3].before.received # hammingResult[1].received

\* the number of logged flipBit calls with index i
FlipCount(i) ==
    Cardinality({n \in 1..Len(tabLog) :
                    tabLog[n].op = "flipBit" /\ tabLog[n].index = i})

\* C16: after runHamming and any flipBit calls, received is encoded with
\* exactly the positions flipped an odd number of times toggled, and
\* corrected and errorPosition are Hamming.decode of that received codeword,
\* whatever the order and history of the flips.
C16_ReceivedTracksFlips ==
    hammingResult # <<>>
      => LET r == hammingResult[1]
         IN  /\ IsBits(r.received, 7)
             /\ IsBits(r.encoded, 7)
             /\ \A k \in 1..7 :
                    (r.received[k] # r.encoded[k]) <=> (FlipCount(k - 1) % 2 = 1)
             /\ r.corrected = Hamming_decode(r.received).corrected
             /\ r.errorPosition = Hamming_decode(r.received).errorPos

\* one bit was flipped twice, another once: a single-bit error remains
C16_Witness ==
    /\ hammingResult # <<>>
    /\ \E i, j \in 0..6 :
          /\ i # j
          /\ FlipCount(i) = 2
          /\ FlipCount(j) = 1
          /\ hammingResult[1].errorPosition = Num(j + 1)
    /\ hammingResult[1].corrected = hammingResult[1].original

\* C18: runHamming changes nothing when the input is not 4 characters long
\* and otherwise sets the result to the input, its codeword as encoded and as
\* received, the input as corrected and no error position; flipBit changes
\* nothing when there is no result and otherwise leaves original and encoded
\* as they were.
C18_TabHandlers ==
    [][/\ (lastOp' = "runHamming" /\ Len(hammingInput) # 4)
          => UNCHANGED <<hammingInput, hammingResult, tabLog>>
       /\ (lastOp' = "runHamming" /\ Len(hammingInput) = 4)
          => /\ hammingResult' =
                   << [original      |-> hammingInput,
                       encoded       |-> Hamming_encode(hammingInput),
                       received      |-> Hamming_encode(hammingInput),
                       corrected     |-> hammingInput,
                       errorPosition |-> Null] >>
             /\ UNCHANGED hammingInput
       /\ (lastOp' = "flipBit" /\ hammingResult = <<>>)
          => UNCHANGED <<hammingInput, hammingResult, tabLog>>
       /\ FlipStep
          => /\ hammingResult' # <<>>
             /\ hammingResult'[1].original = hammingResult[1].original
             /\ hammingResult'[1].encoded = hammingResult[1].encoded
       ]_vars

\* runHamming was called on a shortened input and left the flipped result
\* of the earlier payload in place
C18_Witness ==
    /\ lastOp = "runHamming"
    /\ Len(hammingInput) = 3
    /\ hammingResult # <<>>
    /\ hammingResult[1].original # hammingInput
    /\ hammingResult[1].received # hammingResult[1].encoded
    /\ Len(tabLog) = 2

---------------------------------------------------------------------------
(* The history list, transmit and the batch tab of the App.                *)

\* .slice(0, 50)
HistoryLimit == 50

\* the first n elements of a list
Slice(list, n) == SubSeq(list, 1, IF Len(list) < n THEN Len(list) ELSE n)

\* addToHistory over the history its closure holds: the updated list that
\* setHistory receives
addToHistory(captured, entry, timestamp) ==
    Slice(<<[type      |-> entry.type,
             summary   |-> entry.summary,
             timestamp |-> timestamp]>> \o captured, HistoryLimit)

\* what Date.now() can return: the clock as it is, or later
Clock == {now, now + 1}

\* the selections a file dialog hands over: file "a" of 0 bytes, file "b."
\* of 12 bytes, or both
FileLists ==
    {<<[name |-> <<97>>, size |-> 0]>>,
     <<[name |-> <<98, 46>>, size |-> 12]>>,
     <<[name |-> <<97>>, size |-> 0], [name |-> <<98, 46>>, size |-> 12]>>}

\* the code units of String(size)
SizeString(size) ==
    LET digits == DecimalString(size)
    IN  [i \in 1..Len(digits) |->
            47 + (CHOOSE d \in 1..10 : DigitChars[d] = digits[i])]

\* item.name + item.size
ItemData(item) == item.name \o SizeString(item.size)

\* the data strings of the files a dialog can hand over
BatchData ==
    UNION {{ItemData(files[i]) : i \in 1..Len(files)} : files \in FileLists}

\* await calculateChecksum(item.name + item.size, HashAlgorithm.ADDITIVE,
\* additiveOptions) for the data and the options a run can hold, tabulated
\* so that the sums are evaluated once and not at every enabledness test
BatchChecksums ==
    [data \in BatchData, opts \in {DefaultOptions} |->
        calculateChecksum(data, opts)]

\* a for-of loop that ignores the status of the items
NextTurn_noSkip(updated, from, heap) ==
    IF from <= Len(updated) THEN from ELSE 0

\* a loop that goes back to the first item after every item
NextTurn_restart(updated, from, heap) ==
    IF Len(updated) = 0 THEN 0 ELSE 1

\* for (let item of updated) { if (item.status === 'completed') continue;
\* the first position from `from` on whose item is not completed, 0 when the
\* loop runs out
NextTurn(updated, from, heap) ==
    LET open == {k \in from..Len(updated) :
                    heap[updated[k]].status # "completed"}
    IN  IF open = {} THEN 0
        ELSE CHOOSE k \in open : \A other \in open : k <= other

\* the history an earlier session saved: nothing, or a list one short of
\* the limit
SavedHistories ==
    {<<>>,
     [i \in 1..(HistoryLimit - 1) |->
         [type |-> "single", summary |-> 0, timestamp |-> 0]]}

\* the state after the App has mounted and its effects have run
InitBatch ==
    /\ history \in SavedHistories
    /\ now = 1
    /\ batchItems = <<>>
    /\ items = <<>>
    /\ runs = <<>>
    /\ ops = 0
    /\ additiveOptions = DefaultOptions
    /\ senderData = HelloIntegrityWorld
    /\ senderChecksum = calculateChecksum(senderData, additiveOptions)
    /\ receiverData = HelloIntegrityWorld
    /\ receiverReceivedChecksum = <<>>
    /\ receiverCalculatedChecksum
         = calculateChecksum(receiverData, additiveOptions)
    /\ senderDirty = FALSE
    /\ receiverDirty = FALSE
    /\ intact = FALSE
    /\ HammingIdle
    /\ ChecksumIdle
    /\ hammingInput = <<"1", "0", "1", "1">>
    /\ hammingResult = <<>>
    /\ tabLog = <<>>
    /\ lastOp = "none"

transmit ==
    /\ ops < MaxOps
    /\ ops' = ops + 1
    /\ receiverData' = senderData
    /\ receiverReceivedChecksum' = senderChecksum
    /\ receiverDirty' = (receiverDirty \/ receiverData' # receiverData)
    /\ intact' = (senderData # <<>> /\ ~senderDirty)
    /\ \E timestamp \in Clock :
          /\ now' = timestamp
          /\ history' = addToHistory(history,
                                     [type |-> "single", summary |-> 0],
                                     timestamp)
    /\ UNCHANGED <<batchItems, items, runs, additiveOptions, senderData,
                   senderChecksum, receiverCalculatedChecksum, senderDirty>>
    /\ UNCHANGED <<hvars, cvars, tvars>>

\* the clear button of the history panel: setHistory([])
clearHistory ==
    /\ ops < MaxOps
    /\ ops' = ops + 1
    /\ history' = <<>>
    /\ UNCHANGED <<now, batchItems, items, runs, additiveOptions, senderData,
                   senderChecksum, receiverData, receiverReceivedChecksum>>
    /\ UNCHANGED <<hvars, cvars, tvars, evars>>

\* setBatchItems(prev => [...prev, ...newItems]), each new item 'pending'
handleFileUpload(files) ==
    /\ ops < MaxOps
    /\ ops' = ops + 1
    /\ items' = items \o [i \in 1..Len(files) |->
                            [name     |-> files[i].name,
                             size     |-> files[i].size,
                             status   |-> "pending",
                             checksum |-> NoString]]
    /\ batchItems' = batchItems \o [i \in 1..Len(files) |-> Len(items) + i]
    /\ UNCHANGED <<history, now, runs, additiveOptions, senderData,
                   senderChecksum, receiverData, receiverReceivedChecksum>>
    /\ UNCHANGED <<hvars, cvars, tvars, evars>>

\* the click on the process button: processBatch up to its first await, or
\* to its end when no item is left to process
processBatch ==
    /\ ops < MaxOps
    /\ ops' = ops + 1
    /\ LET updated == batchItems
           run     == [updated |-> updated,
                       opts    |-> additiveOptions,
                       hist    |-> history,
                       files   |-> Len(batchItems)]
           turn    == NextTurn(updated, 1, items)
       IN  IF turn = 0
           THEN /\ \E timestamp \in Clock :
                     /\ now' = timestamp
                     /\ history' = addToHistory(run.hist,
                                                [type    |-> "batch",
                                                 summary |-> run.files],
                                                timestamp)
                /\ runs' = Append(runs, [run |-> run, at |-> 0,
                                         done |-> TRUE])
                /\ UNCHANGED <<batchItems, items>>
           ELSE /\ items' = [items EXCEPT
                               ![updated[turn]].status = "processing"]
                /\ batchItems' = updated
                /\ runs' = Append(runs, [run |-> run, at |-> turn,
                                         done |-> FALSE])
                /\ UNCHANGED <<history, now>>
    /\ UNCHANGED <<additiveOptions, senderData, senderChecksum,
                   receiverData, receiverReceivedChecksum>>
    /\ UNCHANGED <<hvars, cvars, tvars, evars>>

\* the timer of run r fires: processBatch from after its await to its next
\* await, or to its end
processBatchResumes(r) ==
    /\ ~runs[r].done
    /\ LET run      == runs[r].run
           id       == run.updated[runs[r].at]
           computed == [items EXCEPT
                          ![id].checksum =
                              BatchChecksums[ItemData(items[id]), run.opts],
                          ![id].status = "completed"]
           turn     == NextTurn(run.updated, runs[r].at + 1, computed)
       IN  IF turn = 0
           THEN /\ items' = computed
                /\ \E timestamp \in Clock :
                     /\ now' = timestamp
                     /\ history' = addToHistory(run.hist,
                                                [type    |-> "batch",
                                                 summary |-> run.files],
                                                timestamp)
                /\ runs' = [runs EXCEPT ![r].done = TRUE]
           ELSE /\ items' = [computed EXCEPT
                               ![run.updated[turn]].status = "processing"]
                /\ runs' = [runs EXCEPT ![r].at = turn]
                /\ UNCHANGED <<history, now>>
    /\ batchItems' = runs[r].run.updated
    /\ UNCHANGED <<ops, additiveOptions, senderData, senderChecksum,
                   receiverData, receiverReceivedChecksum>>
    /\ UNCHANGED <<hvars, cvars, tvars, evars>>

NextBatch ==
    \/ transmit
    \/ clearHistory
    \/ \E files \in FileLists : handleFileUpload(files)
    \/ processBatch
    \/ \E r \in 1..Len(runs) : processBatchResumes(r)

SpecBatch == InitBatch /\ [][NextBatch]_vars

\* the 400 ms timer of an awaiting run fires in the end
SpecBatchFair ==
    SpecBatch /\ WF_vars(\E r \in 1..Len(runs) : processBatchResumes(r))

---------------------------------------------------------------------------
(* Claims about the history list and the batch runs.                       *)

\* no entry of the list is newer than the entry before it
NewestFirst(list) ==
    \A i \in 1..(Len(list) - 1) : list[i].timestamp >= list[i + 1].timestamp

\* the step puts an entry into the history
HistoryGrows == history' # history /\ history' # <<>>

\* C19: after any transmit, processBatch completion or history clear the
\* history has at most 50 entries, newest first, and a step that adds an
\* entry leaves the list that was there with the new entry in front of it,
\* less the oldest entries beyond 50.
C19_HistoryNewestFirst ==
    [][/\ Len(history') <= HistoryLimit
       /\ NewestFirst(history')
       /\ HistoryGrows
            => history' = Slice(<<history'[1]>> \o history, HistoryLimit)
      ]_vars

\* the part of C19 that holds in every reachable state
HistoryBoundedAndOrdered ==
    Len(history) <= HistoryLimit /\ NewestFirst(history)

\* the position run r is at once the step is over: past the end of its
\* list when it is done
TurnAfter(r) ==
    IF runs'[r].done THEN Len(runs'[r].run.updated) + 1 ELSE runs'[r].at

\* the position run r was at before the step: 0 when the step starts it
TurnBefore(r) == IF r > Len(runs) THEN 0 ELSE runs[r].at

\* run r is started or resumed by the step
RunMoves(r) == r > Len(runs) \/ runs'[r] # runs[r]

\* C20: a processBatch run handles its items strictly in list order: the
\* item it awaited becomes 'completed' with its checksum set, the items it
\* then passes over were 'completed' at their turn and keep status and
\* checksum, the next item that is not 'completed' becomes 'processing';
\* and no status ever leaves 'completed'.
C20_BatchInListOrder ==
    [][/\ \A id \in 1..Len(items) :
             items[id].status = "completed"
               => items'[id].status = "completed"
       /\ \A r \in 1..Len(runs') :
             RunMoves(r)
               => LET updated == runs'[r].run.updated
                      from    == TurnBefore(r)
                      to      == TurnAfter(r)
                  IN  /\ from < to
                      /\ from > 0
                           => /\ items[updated[from]].status
                                   \in {"processing", "completed"}
                              /\ items'[updated[from]].status = "completed"
                              /\ items'[updated[from]].checksum # NoString
                              /\ items'[updated[from]].checksum # <<>>
                      /\ \A k \in (from + 1)..(to - 1) :
                            /\ items[updated[k]].status = "completed"
                            /\ items'[updated[k]] = items[updated[k]]
                      /\ to <= Len(updated)
                           => /\ items[updated[to]].status # "completed"
                              /\ items'[updated[to]].status = "processing"
                              /\ items'[updated[to]].checksum
                                   = items[updated[to]].checksum
      ]_vars

\* a second run, started after the first had finished, passed over the
\* completed first item and completed the second
C20_Witness ==
    /\ Len(runs) = 2
    /\ runs[1].done
    /\ runs[2].done
    /\ runs[1].run.updated = <<1>>
    /\ runs[2].run.updated = <<1, 2>>
    /\ runs[2].run.hist # <<>>
    /\ runs[2].run.hist[1].type = "batch"
    /\ \A id \in 1..2 :
          items[id].status = "completed" /\ items[id].checksum # NoString

\* run r exists and has returned
RunDone(r) == r <= Len(runs) /\ runs[r].done

\* every item that was in batchItems when run r started is 'completed' and
\* has a checksum that is not the empty string
RunItemsCompleted(r) ==
    \A k \in 1..Len(runs[r].run.updated) :
        LET item == items[runs[r].run.updated[k]]
        IN  /\ item.status = "completed"
            /\ item.checksum # NoString
            /\ item.checksum # <<>>

\* the step in which run r returns
RunReturns(r) == r <= Len(runs') /\ runs'[r].done /\ ~RunDone(r)

\* the step in which run r returns leaves its items completed and one
\* 'batch' entry at the head of the history
ReturnAddsEntry ==
    \A r \in 1..Len(runs') :
        RunReturns(r)
          => /\ RunItemsCompleted(r)'
             /\ history' # <<>>
             /\ history'[1].type = "batch"
             /\ history'[1].summary = runs'[r].run.files
             /\ Len(history') <= Len(runs'[r].run.hist) + 1

\* a 'batch' entry is added only by the return of exactly one run
EntryOnlyAtReturn ==
    (HistoryGrows /\ history'[1].type = "batch")
      => Cardinality({r \in 1..Len(runs') : RunReturns(r)}) = 1

\* a run is awaiting its timer
SomeRunAwaits == \E r \in 1..Len(runs) : ~runs[r].done

\* every run so far has returned with the items of its list completed
AllRunsDone == \A r \in 1..Len(runs) : RunDone(r) /\ RunItemsCompleted(r)

\* C21: a processBatch run always terminates: while a run is awaiting, in
\* the end every run has returned, with every item of its list 'completed'
\* and carrying a non-empty checksum; the step in which a run returns puts
\* one 'batch' entry at the head of the history, and no other step adds a
\* 'batch' entry.
C21_BatchTerminates ==
    /\ SomeRunAwaits ~> AllRunsDone
    /\ [][ReturnAddsEntry /\ EntryOnlyAtReturn]_vars

\* a run over two pending items has returned while another was awaiting
C21_Witness ==
    /\ Len(runs) = 2
    /\ RunDone(1)
    /\ ~RunDone(2)
    /\ Len(runs[1].run.updated) = 2
    /\ RunItemsCompleted(1)
    /\ history # <<>>
    /\ history[1].type = "batch"

\* the ids listed in batchItems
ListedItems == {batchItems[k] : k \in 1..Len(batchItems)}

\* C22: no batch item is ever lost: every item that handleFileUpload has
\* added is in batchItems, whatever steps of a running processBatch the
\* uploads interleave with.
C22_NoItemLost == \A id \in 1..Len(items) : id \in ListedItems

\* the items whose status is 'processing'
ProcessingItems == {id \in 1..Len(items) : items[id].status = "processing"}

\* run r is resumed by the step: it computes the checksum of the item it
\* awaited
RunComputes(r) == runs'[r] # runs[r]

\* C23: batch items are processed one at a time, also when processBatch is
\* started again while an earlier run is awaiting: at most one item is
\* 'processing', and a run computes the checksum of an item only when that
\* item has no checksum yet.
C23_OneAtATime ==
    [][/\ Cardinality(ProcessingItems') <= 1
       /\ \A r \in 1..Len(runs) :
             RunComputes(r)
               => items[runs[r].run.updated[runs[r].at]].checksum = NoString
      ]_vars

\* the part of C23 about the number of items in 'processing'
AtMostOneProcessing == Cardinality(ProcessingItems) <= 1

---------------------------------------------------------------------------
(* The single tab of the App: sender, receiver, options and transmit.      *)

\* what the two text areas can hold: '', 'A' or the initial text
Texts == {<<>>, <<65>>, HelloIntegrityWorld}

\* {...additiveOptions, bitWidth} from the select and
\* {...additiveOptions, initialValue} from the hex input
OptionEdits ==
    {[additiveOptions EXCEPT !.bitWidth = w] : w \in {8, 16, 32}}
      \cup {[additiveOptions EXCEPT !.initialValue = v] :
                v \in {Zero, Big(1, 0, 0, 0)}}

\* onChange of the sender's text area; the effect on updateSenderChecksum
\* is due once senderData has changed
SetSenderData(text) ==
    /\ ops < MaxOps
    /\ ops' = ops + 1
    /\ text # senderData
    /\ senderData' = text
    /\ senderDirty' = TRUE
    /\ UNCHANGED <<history, now, batchItems, items, runs, additiveOptions,
                   senderChecksum, receiverData, receiverReceivedChecksum,
                   receiverCalculatedChecksum, receiverDirty, intact>>
    /\ UNCHANGED <<hvars, cvars, tvars>>

\* onChange of the receiver's text area
SetReceiverData(text) ==
    /\ ops < MaxOps
    /\ ops' = ops + 1
    /\ text # receiverData
    /\ receiverData' = text
    /\ receiverDirty' = TRUE
    /\ intact' = FALSE
    /\ UNCHANGED <<history, now, batchItems, items, runs, additiveOptions,
                   senderData, senderChecksum, receiverReceivedChecksum,
                   receiverCalculatedChecksum, senderDirty>>
    /\ UNCHANGED <<hvars, cvars, tvars>>

\* setAdditiveOptions(opts): both checksum callbacks are made anew and
\* their effects are due
saveAdditiveOptions(opts) ==
    /\ ops < MaxOps
    /\ ops' = ops + 1
    /\ additiveOptions' = opts
    /\ senderDirty' = TRUE
    /\ receiverDirty' = TRUE
    /\ UNCHANGED <<history, now, batchItems, items, runs, senderData,
                   senderChecksum, receiverData, receiverReceivedChecksum,
                   receiverCalculatedChecksum, intact>>
    /\ UNCHANGED <<hvars, cvars, tvars>>

\* the effect's call of updateSenderChecksum
updateSenderChecksum ==
    /\ senderDirty
    /\ senderChecksum' = calculateChecksum(senderData, additiveOptions)
    /\ senderDirty' = FALSE
    /\ UNCHANGED <<history, now, batchItems, items, runs, ops,
                   additiveOptions, senderData, receiverData,
                   receiverReceivedChecksum, receiverCalculatedChecksum,
                   receiverDirty, intact>>
    /\ UNCHANGED <<hvars, cvars, tvars>>

\* the effect's call of updateReceiverChecksum
updateReceiverChecksum ==
    /\ receiverDirty
    /\ receiverCalculatedChecksum'
         = calculateChecksum(receiverData, additiveOptions)
    /\ receiverDirty' = FALSE
    /\ UNCHANGED <<history, now, batchItems, items, runs, ops,
                   additiveOptions, senderData, senderChecksum, receiverData,
                   receiverReceivedChecksum, senderDirty, intact>>
    /\ UNCHANGED <<hvars, cvars, tvars>>

isMatch ==
    /\ receiverCalculatedChecksum # <<>>
    /\ receiverCalculatedChecksum = receiverReceivedChecksum

isMismatch ==
    /\ receiverCalculatedChecksum # <<>>
    /\ receiverReceivedChecksum # <<>>
    /\ receiverCalculatedChecksum # receiverReceivedChecksum

NextSingle ==
    \/ \E text \in Texts : SetSenderData(text)
    \/ \E text \in Texts : SetReceiverData(text)
    \/ \E opts \in OptionEdits : saveAdditiveOptions(opts)
    \/ updateSenderChecksum
    \/ updateReceiverChecksum
    \/ transmit

SpecSingle == InitBatch /\ [][NextSingle]_vars

\* C24: after a transmit of non-empty sender data with an up-to-date sender
\* checksum, while the receiver's data is not edited, the receiver shows a
\* match and no mismatch once its checksum is recomputed, whatever has been
\* changed since in the sender's data or in the additive options.
C24_NoMismatchAfterTransmit ==
    (intact /\ ~receiverDirty) => (isMatch /\ ~isMismatch)

=============================================================================
